---- MODULE Spec2Model ----
(***************************************************************************)
(* DynaQR attendance backend: the markAttendance handler of                *)
(* backend/controllers/attendanceController.js running as concurrent       *)
(* requests against the Session / Attendance / User collections, the       *)
(* SessionNew status derivation, migration 005, the QRToken store, the     *)
(* createSession and read handlers behind their routes, and login and      *)
(* registration with their audit log appends.                              *)
(*                                                                         *)
(* A request is a sequence of atomic steps, one per `await`: Node runs the *)
(* synchronous code between two awaits without interruption, and the       *)
(* database serves each query at one instant.  Other requests, and the     *)
(* clock, may move between two steps of a request.                         *)
(***************************************************************************)
EXTENDS Integers, FiniteSets, Sequences, TLC

\* ---------------------------------------------------------------- bounds
MaxTime == 3
MaxReq == 2
MaxTokens == 2

Time == 0..MaxTime
Req == 1..MaxReq

\* ------------------------------------------------------------ the fixture
null == "null"

SessionIds == {"s1", "s2"}
UnknownSessionId == "s3"
StudentIds == {"u1", "u2"}
Sections == {"A", "B"}

DEFAULT_SEMESTER == 3

\* User documents of role student (models/User.js): student_details is
\* required for the role, so every student document carries it.
User(u) ==
  [_id |-> u,
   student_details |->
     [name |-> u, usn |-> u, section |-> IF u = "u1" THEN "A" ELSE "B"]]

\* Student document of the new schema, as migration 001 writes it: the
\* section of the master list (the one registration copied into the User
\* document), and the default semester.
Student(u) ==
  [section |-> User(u).student_details.section, semester |-> DEFAULT_SEMESTER]

\* Legacy Session documents (models/Session.js).
SessionDocs ==
  [_id : SessionIds, section : Sections, class_start_time : {1},
   class_end_time : {2}, is_active : BOOLEAN]

\* Teaching document migration 004 derives from a legacy session: its
\* section, the default semester.
Teaching(session) ==
  [section |-> session.section, semester |-> DEFAULT_SEMESTER]

\* ------------------------------------------------------------------ state
VARIABLES
  now,         \* the wall clock every `new Date()` / Date.now reads
  sessions,    \* Session collection: _id -> document
  attendance,  \* Attendance collection: a set of documents
  req,         \* per request slot: position, inputs, locals, response
  sessionNew,  \* SessionNew collection: legacy _id -> status ("none": absent)
  derived,     \* per SessionNew: when, and by what, its status was last derived
  tokens,      \* QRToken collection
  issued,      \* every QRToken document ever created (history)
  lastValidate, \* the last validateToken call: arguments, clock, result
  qr_token,    \* per request slot: the qr_token of the request body
  auditLog,    \* AuditLog collection: a set of documents
  registered,  \* the accounts whose is_registered flag is set
  authRes,     \* the last response of /api/auth/login or /register
  apiRes,      \* the last response of createSession or of a read endpoint
  users,       \* User collection, role student: _id -> document
  gate,        \* the last request to an attendance route: how far it got
  page,        \* the teacher dashboard page: its React state and its timer
  scan         \* the student scan page: its state, refs, timers and requests

vars ==
  <<now, sessions, attendance, req, sessionNew, derived, tokens, issued,
    lastValidate, qr_token, auditLog, registered, authRes, apiRes, users,
    gate, page, scan>>

statusVars == <<sessionNew, derived>>
tokenVars == <<tokens, issued, lastValidate>>
authVars == <<auditLog, registered, authRes>>
sideVars == <<users, gate, page, scan>>
apiVars == <<qr_token, authVars, apiRes, sideVars>>

\* -------------------------------------------------------------- responses
MsgMissingSessionId == "Please provide sessionId."
MsgSessionNotFound == "Session not found"
MsgInactive == "Session is inactive. Attendance cannot be marked."
MsgNotStarted == "Class has not started yet!"
MsgEnded == "Class has ended! Attendance closed."
MsgAlreadyMarked == "You have already marked attendance!"
MsgProfileIncomplete == "Student profile incomplete. Cannot mark attendance."
MsgSuccess == "Attendance Marked Successfully!"
MsgServerError == "Server Error marking attendance"

Response(status, message) == [status |-> status, message |-> message]
NoResponse == Response(0, null)

\* No document: what findById leaves in `student` before it is served.
NoUser ==
  [_id |-> null,
   student_details |-> [name |-> null, usn |-> null, section |-> null]]

IdleReq ==
  [pc |-> "idle", user |-> null, sessionId |-> null, checkedAt |-> -1,
   student |-> NoUser, timestamp |-> -1, res |-> NoResponse]

\* ------------------------------------------------- the Attendance store
\* models/Attendance.js declares no index on (session_id, student_id).
AttendanceUniqueIndex == FALSE

\* Attendance.findOne({session_id, student_id})
findOne(store, session_id, student_id) ==
  {a \in store : a.session_id = session_id /\ a.student_id = student_id}

\* Model.create: the insert is refused with E11000 only under a unique index.
DuplicateKey(store, doc) ==
  AttendanceUniqueIndex /\ findOne(store, doc.session_id, doc.student_id) # {}

\* ---------------------------------------------------------------- clock
Tick ==
  /\ now < MaxTime
  /\ now' = now + 1
  /\ UNCHANGED <<sessions, attendance, req, statusVars, tokenVars, apiVars>>

\* ------------------------------------- markAttendance, step by step
\* The three time/activity checks of lines 59-77 on a loaded session, at
\* clock value t: the rejection message, or null when all pass.
SessionCheckNoEnd(session, t) ==
  IF ~session.is_active THEN MsgInactive
  ELSE IF t < session.class_start_time THEN MsgNotStarted
  ELSE null

SessionCheckStoredStatus(session, t) ==
  IF ~session.is_active THEN MsgInactive
  ELSE IF sessionNew[session._id] = "scheduled" THEN MsgNotStarted
  ELSE IF sessionNew[session._id] = "completed" THEN MsgEnded
  ELSE IF t < session.class_start_time THEN MsgNotStarted
  ELSE IF t > session.class_end_time THEN MsgEnded
  ELSE null

SessionCheck(session, t) ==
  IF ~session.is_active THEN MsgInactive
  ELSE IF t < session.class_start_time THEN MsgNotStarted
  ELSE IF t > session.class_end_time THEN MsgEnded
  ELSE null

\* lines 44-52: read the body, validate, ask for the session.  The body may
\* carry a qr_token (API_CONTRACT.md, Mark Attendance); line 44 destructures
\* sessionId alone, so the handler never reads it.
MarkRequest(r, u, sid, code) ==
  /\ req[r].pc = "idle"
  /\ \A q \in Req : q < r => req[q].pc # "idle"
  /\ req' =
       [req EXCEPT
          ![r] =
            IF sid = null
            THEN [@ EXCEPT !.pc = "done", !.user = u, !.sessionId = sid,
                           !.res = Response(400, MsgMissingSessionId)]
            ELSE [@ EXCEPT !.pc = "findSession", !.user = u, !.sessionId = sid]]
  /\ qr_token' = [qr_token EXCEPT ![r] = code]
  /\ UNCHANGED <<now, sessions, attendance, statusVars, tokenVars, authVars,
                 apiRes, sideVars>>

\* A request whose body is { sessionId } alone.
MarkStart(r, u, sid) == MarkRequest(r, u, sid, null)

\* lines 52-88: Session.findById resolves; existence, is_active and time
\* checks against `now = new Date()`; then ask for an existing record.
MarkFindSession(r) ==
  /\ req[r].pc = "findSession"
  /\ LET sid == req[r].sessionId
     IN req' =
          [req EXCEPT
             ![r] =
               IF sid \notin DOMAIN sessions
               THEN [@ EXCEPT !.pc = "done",
                              !.res = Response(404, MsgSessionNotFound)]
               ELSE IF SessionCheck(sessions[sid], now) # null
               THEN [@ EXCEPT !.pc = "done", !.checkedAt = now,
                              !.res = Response(400, SessionCheck(sessions[sid], now))]
               ELSE [@ EXCEPT !.pc = "findAttendance", !.checkedAt = now]]
  /\ UNCHANGED <<now, sessions, attendance, statusVars, tokenVars, apiVars>>

MarkFindAttendanceNoPrecheck(r) ==
  /\ req[r].pc = "findAttendance"
  /\ req' = [req EXCEPT ![r].pc = "findUser"]
  /\ UNCHANGED <<now, sessions, attendance, statusVars, tokenVars, apiVars>>

\* lines 85-95: Attendance.findOne resolves; the pre-check; ask for the user.
MarkFindAttendance(r) ==
  /\ req[r].pc = "findAttendance"
  /\ req' =
       [req EXCEPT
          ![r] =
            IF findOne(attendance, req[r].sessionId, req[r].user) # {}
            THEN [@ EXCEPT !.pc = "done",
                           !.res = Response(400, MsgAlreadyMarked)]
            ELSE [@ EXCEPT !.pc = "findUser"]]
  /\ UNCHANGED <<now, sessions, attendance, statusVars, tokenVars, apiVars>>

\* lines 95-107: User.findById resolves; the profile check; the document is
\* built (timestamp defaults to Date.now) and handed to Attendance.create.
MarkFindUser(r) ==
  /\ req[r].pc = "findUser"
  /\ req' =
       [req EXCEPT
          ![r] =
            IF req[r].user \notin StudentIds
            THEN [@ EXCEPT !.pc = "done",
                           !.res = Response(400, MsgProfileIncomplete)]
            ELSE [@ EXCEPT !.pc = "create", !.student = users[req[r].user],
                           !.timestamp = now]]
  /\ UNCHANGED <<now, sessions, attendance, statusVars, tokenVars, apiVars>>

\* The document markAttendance hands to Attendance.create (lines 102-107).
AttendanceDoc(r) ==
  [_id |-> r,
   session_id |-> req[r].sessionId,
   student_id |-> req[r].student._id,
   student_name |-> req[r].student.student_details.name,
   usn |-> req[r].student.student_details.usn,
   timestamp |-> req[r].timestamp]

\* lines 102-117: the insert is served; success, or the catch block.
MarkCreate(r) ==
  /\ req[r].pc = "create"
  /\ IF DuplicateKey(attendance, AttendanceDoc(r))
     THEN /\ req' = [req EXCEPT ![r].pc = "done",
                                ![r].res = Response(400, MsgAlreadyMarked)]
          /\ UNCHANGED attendance
     ELSE /\ attendance' = attendance \cup {AttendanceDoc(r)}
          /\ req' = [req EXCEPT ![r].pc = "done",
                                ![r].res = Response(200, MsgSuccess)]
  /\ UNCHANGED <<now, sessions, statusVars, tokenVars, apiVars>>

\* The positions at which markAttendance awaits the database.
AwaitPositions == {"findSession", "findAttendance", "findUser", "create"}

MarkStoreErrorAfterWrite(r) ==
  /\ req[r].pc \in AwaitPositions
  /\ req' = [req EXCEPT ![r].pc = "done",
                        ![r].res = Response(500, MsgServerError)]
  /\ attendance' =
       IF req[r].pc = "create" THEN attendance \cup {AttendanceDoc(r)}
       ELSE attendance
  /\ UNCHANGED <<now, sessions, statusVars, tokenVars, apiVars>>

\* lines 110-117: an awaited database call rejects with an error other than
\* E11000; the catch block logs it and answers 500.
MarkStoreError(r) ==
  /\ req[r].pc \in AwaitPositions
  /\ req' = [req EXCEPT ![r].pc = "done",
                        ![r].res = Response(500, MsgServerError)]
  /\ UNCHANGED <<now, sessions, attendance, statusVars, tokenVars, apiVars>>

\* Names and identifiers a re-seeded student document can carry.
EditedNames == {"renamed"}

EditProfileCascading(u, name, usn) ==
  /\ users' = [users EXCEPT ![u].student_details.name = name,
                            ![u].student_details.usn = usn]
  /\ attendance' =
       {IF a.student_id = u
        THEN [a EXCEPT !.student_name = name, !.usn = usn] ELSE a :
          a \in attendance}
  /\ UNCHANGED <<now, sessions, req, statusVars, tokenVars, qr_token,
                 authVars, apiRes, gate, page, scan>>

\* The student document of an existing account is rewritten with another
\* name and usn (seed-v2.js: findOneAndUpdate by email with the data of
\* the master list).
EditProfile(u, name, usn) ==
  /\ users' = [users EXCEPT ![u].student_details.name = name,
                            ![u].student_details.usn = usn]
  /\ UNCHANGED <<now, sessions, attendance, req, statusVars, tokenVars,
                 qr_token, authVars, apiRes, gate, page, scan>>

markAttendance(R) ==
  \/ \E r \in R, u \in StudentIds,
        sid \in SessionIds \cup {UnknownSessionId, null} : MarkStart(r, u, sid)
  \/ \E r \in R : MarkFindSession(r)
  \/ \E r \in R : MarkFindAttendance(r)
  \/ \E r \in R : MarkFindUser(r)
  \/ \E r \in R : MarkCreate(r)

\* ------------------------------------------------ session status (new schema)
SESSION_STATUSES == {"scheduled", "active", "completed", "cancelled"}

\* migrations/005-migrate-sessions.js determineStatus, at clock value t.
determineStatus(session, t) ==
  IF ~session.is_active THEN "cancelled"
  ELSE IF t < session.class_start_time THEN "scheduled"
  ELSE IF t >= session.class_start_time /\ t <= session.class_end_time
  THEN "active"
  ELSE "completed"

\* SessionNew.updateStatusByTime on a document with the given stored status
\* and window, at clock value t: the status the document holds afterwards.
updateStatusByTimeUnguarded(status, start_time, end_time, t) ==
  IF t < start_time THEN "scheduled"
  ELSE IF t >= start_time /\ t <= end_time THEN "active"
  ELSE IF t > end_time THEN "completed"
  ELSE status

updateStatusByTimeExclusive(status, start_time, end_time, t) ==
  IF status = "cancelled" THEN status
  ELSE IF t < start_time THEN "scheduled"
  ELSE IF t > start_time /\ t <= end_time THEN "active"
  ELSE IF t > end_time THEN "completed"
  ELSE status

updateStatusByTimeReopening(status, start_time, end_time, t) ==
  IF status = "cancelled" THEN status
  ELSE IF t < start_time THEN "scheduled"
  ELSE IF t >= start_time /\ t <= end_time THEN "active"
  ELSE IF t > end_time THEN "scheduled"
  ELSE status

updateStatusByTime(status, start_time, end_time, t) ==
  IF status = "cancelled" THEN status
  ELSE IF t < start_time THEN "scheduled"
  ELSE IF t >= start_time /\ t <= end_time THEN "active"
  ELSE IF t > end_time THEN "completed"
  ELSE status

\* SessionNew.isWithinTimeWindow
isWithinTimeWindow(start_time, end_time, t) ==
  t >= start_time /\ t <= end_time

\* SessionNew.isCurrentlyActive
isCurrentlyActive(status, start_time, end_time, t) ==
  status = "active" /\ t >= start_time /\ t <= end_time

\* Migration 005, one iteration of its loop: a session already migrated is
\* skipped; otherwise SessionNew.create with the status determined now (the
\* end_time validator passes or the create throws and nothing is stored).
Migrate005(s) ==
  /\ s \in DOMAIN sessions
  /\ IF sessionNew[s] # "none"
     THEN UNCHANGED statusVars
     ELSE IF sessions[s].class_end_time > sessions[s].class_start_time
     THEN /\ sessionNew' =
               [sessionNew EXCEPT ![s] = determineStatus(sessions[s], now)]
          /\ derived' = [derived EXCEPT ![s] = [at |-> now, by |-> "migrate"]]
     ELSE UNCHANGED statusVars
  /\ UNCHANGED <<now, sessions, attendance, req, tokenVars, apiVars>>

\* session.updateStatusByTime() on a stored SessionNew.
UpdateStatusByTime(s) ==
  /\ sessionNew[s] # "none"
  /\ sessionNew' =
       [sessionNew EXCEPT
          ![s] = updateStatusByTime(@, sessions[s].class_start_time,
                                    sessions[s].class_end_time, now)]
  /\ derived' = [derived EXCEPT ![s] = [at |-> now, by |-> "update"]]
  /\ UNCHANGED <<now, sessions, attendance, req, tokenVars, apiVars>>

\* ------------------------------------------------------------ QR tokens
\* crypto.randomBytes(3).toString('hex'): some code, not under the caller's
\* control.
TokenCodes == {"c1", "c2"}

\* validityMs arguments, in clock units.
Validities == {1, 2}

NoCall == [session_id |-> null, token |-> null, at |-> -1, found |-> {},
           repeat |-> FALSE]

\* QRToken.isValid
isValid(doc, t) == t < doc.expires_at

\* The unique index on (session_id, token).
QRTokenDuplicate(store, doc) ==
  \E d \in store : d.session_id = doc.session_id /\ d.token = doc.token

QRTokenCreateReplacing(store, doc) ==
  {d \in store : d.session_id # doc.session_id} \cup {doc}

QRTokenCreateUnindexed(store, doc) == store \cup {doc}

\* this.create({session_id, token, expires_at}) of generateForSession: the
\* store afterwards (unchanged when the insert is refused with E11000).
QRTokenCreate(store, doc) ==
  IF QRTokenDuplicate(store, doc) THEN store ELSE store \cup {doc}

\* QRToken.generateForSession(sessionId, validityMs), drawing code c.
GenerateForSession(s, c, validity) ==
  /\ Cardinality(issued) < MaxTokens
  /\ LET doc == [session_id |-> s, token |-> c, expires_at |-> now + validity]
     IN /\ tokens' = QRTokenCreate(tokens, doc)
        /\ issued' = issued \cup (tokens' \ tokens)
  /\ UNCHANGED <<now, sessions, attendance, req, statusVars, lastValidate,
                 apiVars>>

validateTokenInclusive(store, sessionId, token, t) ==
  {d \in store :
     d.session_id = sessionId /\ d.token = token /\ d.expires_at >= t}

\* QRToken.validateToken(sessionId, token) at clock value t: the documents
\* findOne can return (none: null; the unique index leaves at most one).
validateToken(store, sessionId, token, t) ==
  {d \in store :
     d.session_id = sessionId /\ d.token = token /\ d.expires_at > t}

CallRecord(s, c) ==
  [session_id |-> s, token |-> c, at |-> now,
   found |-> validateToken(tokens, s, c, now),
   repeat |-> /\ lastValidate.session_id = s /\ lastValidate.token = c
              /\ lastValidate.found # {}]

ValidateTokenConsuming(s, c) ==
  /\ lastValidate' = CallRecord(s, c)
  /\ tokens' = tokens \ validateToken(tokens, s, c, now)
  /\ UNCHANGED <<now, sessions, attendance, req, statusVars, issued, apiVars>>

\* A call of QRToken.validateToken(s, c): a read.
ValidateToken(s, c) ==
  /\ lastValidate' = CallRecord(s, c)
  /\ UNCHANGED <<now, sessions, attendance, req, statusVars, tokens, issued,
                 apiVars>>

\* The TTL index on expires_at (expireAfterSeconds: 0): the server's
\* background task removes a document whose expires_at has passed.
TTLDeleteEarly ==
  /\ \E d \in tokens : d.expires_at <= now + 1 /\ tokens' = tokens \ {d}
  /\ UNCHANGED <<now, sessions, attendance, req, statusVars, issued,
                 lastValidate, apiVars>>

TTLDelete ==
  /\ \E d \in tokens : d.expires_at <= now /\ tokens' = tokens \ {d}
  /\ UNCHANGED <<now, sessions, attendance, req, statusVars, issued,
                 lastValidate, apiVars>>

\* ------------------------------------------- the teacher dashboard page
\* setInterval(..., 55000) and { validity_ms: 60000 }.
ROTATE_MS == 55000
VALIDITY_MS == 60000

\* The page's clock counts units of the margin between the two: 5 s.
TickMs == VALIDITY_MS - ROTATE_MS
RotateTicks == ROTATE_MS \div TickMs
ValidityTicks == VALIDITY_MS \div TickMs

\* How long the page is watched, and how often "Refresh QR Now" is clicked.
MaxPageTime == 13
MaxClicks == 1

\* A date that is absent (null, or a missing field of a request body).
NoTime == -1
\* rotationIntervalRef.current === null; otherwise the clock value at which
\* the interval fires next.
NoTimer == -1

\* The page after mount: useState initial values; counters of the
\* rotateToken calls made so far and of those that failed; the session ids
\* of the rotateToken calls that await their response.
NoPage ==
  [view |-> "dashboard", createdSessionId |-> null, currentToken |-> null,
   tokenExpiresAt |-> NoTime, interval |-> NoTimer,
   attempts |-> 0, failures |-> 0, clicks |-> 0, lastRotate |-> "none",
   pending |-> {}]

\* The QR code is on screen: the generate view with a session id and a
\* current token.
Displayed(p) ==
  p.view = "generate" /\ p.createdSessionId # null /\ p.currentToken # null

\* The token document generateForSession(sessionId, 60000) creates with
\* code c at clock value t.
QRTokenDoc(sessionId, c, t) ==
  [session_id |-> sessionId, token |-> c, expires_at |-> t + ValidityTicks]

\* POST /session/:sessionId/rotate-token as the server answers it: a new
\* token of the session, or a failure (the request is lost, or the insert
\* is refused) that stores nothing.
rotateQRToken(store, sessionId, c, t, up) ==
  IF ~up \/ QRTokenDuplicate(store, QRTokenDoc(sessionId, c, t))
  THEN [ok |-> FALSE, token |-> null, expires_at |-> NoTime, store |-> store]
  ELSE [ok |-> TRUE, token |-> c, expires_at |-> t + ValidityTicks,
        store |-> QRTokenCreate(store, QRTokenDoc(sessionId, c, t))]

rotateTokenClearing(p, res) ==
  IF res.ok
  THEN [p EXCEPT !.currentToken = res.token, !.tokenExpiresAt = res.expires_at]
  ELSE [p EXCEPT !.currentToken = null, !.tokenExpiresAt = NoTime]

\* rotateToken: the state after the response; the catch block changes
\* nothing.
rotateToken(p, res) ==
  IF res.ok
  THEN [p EXCEPT !.currentToken = res.token, !.tokenExpiresAt = res.expires_at]
  ELSE p

\* The auto-rotation effect, dependencies [createdSessionId, currentToken]:
\* when one of them changed, the cleanup clears the interval and the effect
\* starts a new one if both are set.
autoRotation(old, new, t) ==
  IF /\ old.createdSessionId = new.createdSessionId
     /\ old.currentToken = new.currentToken
  THEN new
  ELSE IF new.createdSessionId # null /\ new.currentToken # null
  THEN [new EXCEPT !.interval = t + RotateTicks]
  ELSE [new EXCEPT !.interval = NoTimer]

\* The view effect, dependency [view]: on the dashboard view the interval
\* is cleared.
viewEffect(new) ==
  IF new.view = "dashboard" THEN [new EXCEPT !.interval = NoTimer] ELSE new

\* ------------------------------------------------ the student scan page
\* setTimeout(..., 3000): the error cool-down.  The clock of the scan page
\* counts cool-downs.
COOLDOWN_MS == 3000
CooldownTicks == COOLDOWN_MS \div COOLDOWN_MS

\* How often "Reset Scanner" is clicked.
MaxResets == 1

\* What a decoded QR text turns out to be: JSON with sessionId and token,
\* not JSON, or JSON that lacks one of the two.
Payloads == {"valid", "notJSON", "missing"}

\* The answers to POST /api/attendance/mark the page tells apart: 2xx, an
\* error whose message contains "already marked", any other error.
Answers == {"ok", "already", "error"}

\* The scan page after mount.  processing is processingRef.current,
\* scanning the state of that name, running whether the Html5Qrcode
\* instance is scanning; stopping counts the handleScan calls that await
\* scannerRef.current.stop(), inflight those that await api.post; timers
\* holds the clock values at which pending setTimeout callbacks fire.
\* sent, resets, last and answered record what happened so far.
NoScan ==
  [mounted |-> TRUE, processing |-> FALSE, scanning |-> TRUE,
   running |-> TRUE, stopping |-> 0, inflight |-> 0, timers |-> {},
   sent |-> 0, resets |-> 0, last |-> "none", answered |-> "none"]

\* handleScan up to its first await, lines 60-99.
handleScan(p, payload, t) ==
  IF p.processing THEN [p EXCEPT !.last = "dropped"]
  ELSE IF payload # "valid"
  THEN [p EXCEPT !.processing = TRUE, !.scanning = FALSE, !.running = FALSE,
                 !.timers = @ \cup {t + CooldownTicks}, !.last = "invalid"]
  ELSE [p EXCEPT !.processing = TRUE, !.scanning = FALSE,
                 !.stopping = @ + 1, !.last = "accepted"]

\* handleScan after api.post settles, lines 102-128.
handleAnswer(p, answer, t) ==
  IF answer = "ok"
  THEN [p EXCEPT !.mounted = FALSE, !.running = FALSE, !.answered = answer]
  ELSE IF answer = "already"
  THEN [p EXCEPT !.scanning = FALSE, !.running = FALSE, !.processing = TRUE,
                 !.answered = answer]
  ELSE [p EXCEPT !.timers = @ \cup {t + CooldownTicks}, !.answered = answer]

\* The callback of the 3 s setTimeout, lines 78-81, 87-90 and 124-127; the
\* scanner effect then starts the scanner.
cooldownOver(p, t) ==
  [p EXCEPT !.processing = FALSE, !.scanning = TRUE, !.running = TRUE,
            !.timers = @ \ {t}]

\* resetScanner, lines 175-179; the scanner effect then starts the scanner.
resetScanner(p) ==
  [p EXCEPT !.processing = FALSE, !.scanning = TRUE, !.running = TRUE,
            !.answered = "none"]

\* --------------------------------------------------- the route middleware
\* The Authorization header of a request: absent (or not a Bearer header),
\* a token jwt.verify refuses, or a token it accepts with the id and role
\* of its payload.
NoHeader == [kind |-> "none", id |-> null, role |-> null]
BadHeader == [kind |-> "bad", id |-> null, role |-> null]

\* routes/attendanceRoutes.js: method and path, allowed roles, handler.
Routes ==
  {[path |-> "POST /create", allowedRoles |-> {"teacher"},
    handler |-> "createSession"],
   [path |-> "POST /mark", allowedRoles |-> {"student"},
    handler |-> "markAttendance"],
   [path |-> "GET /student-metrics", allowedRoles |-> {"student"},
    handler |-> "getStudentMetrics"],
   [path |-> "GET /history", allowedRoles |-> {"student"},
    handler |-> "getStudentHistory"],
   [path |-> "GET /session/:sessionId", allowedRoles |-> {"teacher"},
    handler |-> "getSessionDetails"],
   [path |-> "GET /teacher-dashboard", allowedRoles |-> {"teacher"},
    handler |-> "getTeacherDashboardData"],
   [path |-> "POST /session/:sessionId/rotate-token",
    allowedRoles |-> {"teacher"}, handler |-> "rotateQRToken"]}

MsgNoToken == "Not authorized, no token"
MsgTokenFailed == "Not authorized, token failed"
MsgUserNotFound == "User not found. Account may have been deleted."
MsgNotRegistered == "Account not registered. Please complete registration."
MsgStudentsOnly == "Access denied. Students only."
MsgForbidden == "Forbidden: Insufficient permissions"

\* What a middleware leaves behind: a response (status, message), or
\* next() with req.user and req.userRole set (status 0).
Passed(user, role) ==
  [status |-> 0, message |-> null, user |-> user, userRole |-> role]
Rejected(status, message) ==
  [status |-> status, message |-> message, user |-> null, userRole |-> null]

NoGate ==
  [path |-> null, header |-> NoHeader, status |-> 0, message |-> null,
   handler |-> null]

protectUnregistered(header, students, faculty, reg) ==
  IF header.kind = "none" THEN Rejected(401, MsgNoToken)
  ELSE IF header.kind = "bad" THEN Rejected(401, MsgTokenFailed)
  ELSE IF header.id \notin students \cup faculty
  THEN Rejected(401, MsgUserNotFound)
  ELSE Passed(header.id, header.role)

\* protect: the header, jwt.verify, the user looked up among the students
\* and then the faculty, the is_registered flag.
protect(header, students, faculty, reg) ==
  IF header.kind = "none" THEN Rejected(401, MsgNoToken)
  ELSE IF header.kind = "bad" THEN Rejected(401, MsgTokenFailed)
  ELSE IF header.id \notin students \cup faculty
  THEN Rejected(401, MsgUserNotFound)
  ELSE IF header.id \notin reg THEN Rejected(401, MsgNotRegistered)
  ELSE Passed(header.id, header.role)

\* authorizeRole(allowedRoles) on a request protect let through.
authorizeRole(allowedRoles, passed) ==
  IF passed.userRole = null \/ passed.userRole \notin allowedRoles
  THEN Rejected(403, MsgForbidden)
  ELSE passed

\* ---------------------------------------------------------- specification
FacultyIds == {"f1", "f2"}
Accounts == StudentIds \cup FacultyIds

NoAuthRes ==
  [op |-> null, email |-> null, role |-> null, passwordLength |-> 0,
   registeredBefore |-> {}, logFailed |-> FALSE, res |-> NoResponse]

NoApiRes ==
  [op |-> null, user |-> null, sessionId |-> null,
   body |-> [subject |-> null, section |-> null, startTime |-> -1,
             endTime |-> -1],
   status |-> 0, message |-> null, docs |-> {}, attendees |-> {},
   metrics |-> [totalSessions |-> 0, activeSessions |-> 0]]

\* Everything but the Session collection and the registration flags.
InitStores ==
  /\ now = 0
  /\ attendance = {}
  /\ req = [r \in Req |-> IdleReq]
  /\ sessionNew = [s \in SessionIds |-> "none"]
  /\ derived = [s \in SessionIds |-> [at |-> -1, by |-> "none"]]
  /\ tokens = {}
  /\ issued = {}
  /\ lastValidate = NoCall
  /\ qr_token = [r \in Req |-> null]
  /\ auditLog = {}
  /\ authRes = NoAuthRes
  /\ apiRes = NoApiRes
  /\ users = [u \in StudentIds |-> User(u)]
  /\ gate = NoGate
  /\ page = NoPage
  /\ scan = NoScan

\* The seeded Session collection.
SeededSessions ==
  {f \in [SessionIds -> SessionDocs] :
     /\ \A s \in SessionIds : f[s]._id = s
     /\ f["s1"].section = "A" /\ f["s2"].section = "B"
     /\ f["s1"].is_active}

Init ==
  /\ InitStores
  /\ sessions \in SeededSessions
  /\ registered = Accounts

Next ==
  \/ Tick
  \/ markAttendance(Req)

Spec == Init /\ [][Next]_vars

\* Status derivation beside one scanning request.
NextStatus ==
  \/ Tick
  \/ \E s \in SessionIds : Migrate005(s)
  \/ \E s \in SessionIds : UpdateStatusByTime(s)
  \/ markAttendance({1})

SpecStatus == Init /\ [][NextStatus]_vars

\* The token store: issue, validate, expire.
NextToken ==
  \/ Tick
  \/ \E s \in SessionIds, c \in TokenCodes, validity \in Validities :
       GenerateForSession(s, c, validity)
  \/ \E s \in SessionIds, c \in TokenCodes : ValidateToken(s, c)
  \/ TTLDelete

InitToken == Init /\ \A s \in SessionIds : sessions[s].is_active

SpecToken == InitToken /\ [][NextToken]_vars

\* ----------------------------------------------------------- audit log
\* AuditLog.log: one document per event.
log(action, actor_type, actor_id, target_type, target_id, metadata) ==
  [action |-> action, actor_type |-> actor_type, actor_id |-> actor_id,
   actor_type_ref |-> IF actor_type = "student" THEN "Student"
                      ELSE IF actor_type = "faculty" THEN "Faculty"
                      ELSE null,
   target_type |-> target_type, target_id |-> target_id,
   metadata |-> metadata]

logAttendance(student_id, session_id, success, metadata) ==
  log(IF success THEN "ATTENDANCE_MARK" ELSE "ATTENDANCE_DENIED",
      "student", student_id, "session", session_id, metadata)

logLogin(actor_type, actor_id, success, metadata) ==
  log(IF success THEN "LOGIN" ELSE "LOGIN_FAILED",
      IF actor_id # null THEN actor_type ELSE "anonymous",
      actor_id, null, null,
      [email |-> metadata.email, reason |-> metadata.reason,
       success |-> success])

\* ------------------------------------------------------------ accounts
MaxAudit == 2

\* The addresses a client may send: two whitelisted accounts, one address of
\* the domain that is in no collection, one outside the domain, and none.
AuthEmails == {"u1", "f1", "x", "ext", null}
AuthRoles == {"student", "teacher", "admin"}
PasswordLengths == {0, 5, 6}
MinPasswordLength == 6

endsWithDomain(email) == email # "ext"

MsgNoEmail == "Please provide an email address."
MsgBadDomain == "Invalid email domain."
MsgInvalidCredentials == "Invalid credentials"
MsgRegisterMissing == "Please provide email, password, and role."
MsgInvalidRole == "Invalid role. Allowed: 'student', 'teacher'."
MsgOnlyDomain == "Only @rvce.edu.in emails are allowed."
MsgShortPassword == "Password must be at least 6 characters."
MsgAlreadyRegistered == "User already registered."
MsgStudentNotFound == "Student email not found in official records."
MsgFacultyNotFound == "Faculty email not found in official records."
MsgLoggedIn == "token"
MsgLogRejected == "AuditLog validation failed"

\* What a handler did: its response, the audit documents it appended, and
\* whether it saved the account as registered.
Outcome(res, events, save) == [res |-> res, events |-> events, save |-> save]

\* `await AuditLog.log(...)` inside the handler's try block, followed by the
\* response `res`: a rejected append throws into the catch block, which
\* answers 500 with the error's message.
AwaitLogThen(doc, res, save, logFails) ==
  IF logFails
  THEN Outcome(Response(500, MsgLogRejected), {}, save)
  ELSE Outcome(res, {doc}, save)

loginUser(email, reg, logFails) ==
  IF email = null THEN Outcome(Response(400, MsgNoEmail), {}, FALSE)
  ELSE IF ~endsWithDomain(email)
  THEN Outcome(Response(400, MsgBadDomain), {}, FALSE)
  ELSE
    LET actorType == IF email \in StudentIds \cap reg THEN "student"
                     ELSE "faculty"
        user == IF email \in reg THEN email ELSE null
    IN IF user = null
       THEN AwaitLogThen(
              logLogin("anonymous", null, FALSE,
                       [email |-> email, reason |-> "user_not_found"]),
              Response(401, MsgInvalidCredentials), FALSE, logFails)
       ELSE AwaitLogThen(
              logLogin(actorType, user, TRUE,
                       [email |-> email, reason |-> null]),
              Response(200, MsgLoggedIn), FALSE, logFails)

registerUser(email, passwordLength, role, reg, logFails) ==
  IF email = null \/ passwordLength = 0
  THEN Outcome(Response(400, MsgRegisterMissing), {}, FALSE)
  ELSE IF role \notin {"student", "teacher"}
  THEN Outcome(Response(400, MsgInvalidRole), {}, FALSE)
  ELSE IF ~endsWithDomain(email)
  THEN Outcome(Response(400, MsgOnlyDomain), {}, FALSE)
  ELSE IF passwordLength < MinPasswordLength
  THEN Outcome(Response(400, MsgShortPassword), {}, FALSE)
  ELSE
    LET collection == IF role = "student" THEN StudentIds ELSE FacultyIds
        actorType == IF role = "student" THEN "student" ELSE "faculty"
    IN IF email \in collection \ reg
       THEN AwaitLogThen(
              log("REGISTER", actorType, email, null, null,
                  [email |-> email]),
              Response(201, MsgLoggedIn), TRUE, logFails)
       ELSE IF email \in collection
       THEN AwaitLogThen(
              log("REGISTER_FAILED", "anonymous", null, null, null,
                  [email |-> email, reason |-> "already_registered"]),
              Response(400, MsgAlreadyRegistered), FALSE, logFails)
       ELSE AwaitLogThen(
              log("REGISTER_FAILED", "anonymous", null, null, null,
                  [email |-> email, reason |-> "not_in_whitelist",
                   role |-> role]),
              Response(400, IF role = "student" THEN MsgStudentNotFound
                            ELSE MsgFacultyNotFound),
              FALSE, logFails)

\* POST /api/auth/login
LoginUser(email, logFails) ==
  LET out == loginUser(email, registered, logFails) IN
  /\ Cardinality(auditLog \cup out.events) <= MaxAudit
  /\ auditLog' = auditLog \cup out.events
  /\ authRes' = [op |-> "login", email |-> email, role |-> null,
                 passwordLength |-> 0, registeredBefore |-> registered,
                 logFailed |-> logFails, res |-> out.res]
  /\ UNCHANGED <<now, sessions, attendance, req, statusVars, tokenVars,
                 qr_token, registered, apiRes, sideVars>>

\* POST /api/auth/register
RegisterUser(email, passwordLength, role, logFails) ==
  LET out == registerUser(email, passwordLength, role, registered, logFails)
  IN
  /\ Cardinality(auditLog \cup out.events) <= MaxAudit
  /\ auditLog' = auditLog \cup out.events
  /\ registered' = IF out.save THEN registered \cup {email} ELSE registered
  /\ authRes' = [op |-> "register", email |-> email, role |-> role,
                 passwordLength |-> passwordLength,
                 registeredBefore |-> registered,
                 logFailed |-> logFails, res |-> out.res]
  /\ UNCHANGED <<now, sessions, attendance, req, statusVars, tokenVars,
                 qr_token, apiRes, sideVars>>

\* ------------------------------------------------- sessions and dashboards
Subjects == {"Maths"}
SecretKeys == {"k1", "k2"}
CreateTimes == {1, 2}
InvalidDate == -2
RecentLimit == 5

\* `new Date(a) >= new Date(b)`: a parseable date is its instant; any other
\* string gives an Invalid Date, and every comparison with one is false.
dateGE(a, b) == a # InvalidDate /\ b # InvalidDate /\ a >= b

MsgCreateMissing == "Please provide subject, section, startTime, and endTime."
MsgInvalidWindow == "End time must be after start time."
MsgCreateError == "Server Error creating session"
MsgNotAuthorized == "Not authorized to view this session"

\* The fields of a Session document, and the projections the read endpoints
\* select.
SessionFields ==
  {"_id", "faculty_id", "subject", "section", "class_start_time",
   "class_end_time", "secret_key", "is_active"}
HistorySessionFields == {"_id", "subject", "section", "class_start_time"}
AttendeeFields == {"_id", "student_name", "usn", "timestamp"}

select(doc, fields) == [f \in fields |-> doc[f]]

\* The Teaching collection: f1 teaches Maths to section A; f2's assignment
\* for section B is disabled.
Teachings ==
  {[_id |-> "t1", faculty_id |-> "f1", subject |-> "Maths", section |-> "A",
    is_active |-> TRUE],
   [_id |-> "t2", faculty_id |-> "f2", subject |-> "Maths", section |-> "B",
    is_active |-> FALSE]}

userRole(user) == IF user \in StudentIds THEN "student" ELSE "teacher"

ApiResponse(op, user, sessionId, body, status, message, docs, attendees, metrics) ==
  [op |-> op, user |-> user, sessionId |-> sessionId, body |-> body,
   status |-> status, message |-> message, docs |-> docs,
   attendees |-> attendees, metrics |-> metrics]

NoBody ==
  [subject |-> null, section |-> null, startTime |-> NoTime,
   endTime |-> NoTime]
NoMetrics == [totalSessions |-> 0, activeSessions |-> 0]

\* The earlier createSession (lines 294-321): no time window validation.
createSessionNoWindowCheck(user, body, _id, secret_key) ==
  IF \/ body.subject = null \/ body.section = null
     \/ body.startTime = NoTime \/ body.endTime = NoTime
  THEN [status |-> 400, message |-> MsgCreateMissing, created |-> {}]
  ELSE IF body.startTime = InvalidDate \/ body.endTime = InvalidDate
  THEN [status |-> 500, message |-> MsgCreateError, created |-> {}]
  ELSE [status |-> 201, message |-> null,
        created |-> {[_id |-> _id, faculty_id |-> user,
                      subject |-> body.subject, section |-> body.section,
                      class_start_time |-> body.startTime,
                      class_end_time |-> body.endTime,
                      secret_key |-> secret_key, is_active |-> TRUE]}]

\* createSession (lines 7-39): validate the body, create the document with a
\* fresh secret_key, answer 201 with the stored document.  Session.create
\* rejects an Invalid Date (cast error), which the catch block answers 500.
createSession(user, body, _id, secret_key) ==
  IF \/ body.subject = null \/ body.section = null
     \/ body.startTime = NoTime \/ body.endTime = NoTime
  THEN [status |-> 400, message |-> MsgCreateMissing, created |-> {}]
  ELSE IF dateGE(body.startTime, body.endTime)
  THEN [status |-> 400, message |-> MsgInvalidWindow, created |-> {}]
  ELSE IF body.startTime = InvalidDate \/ body.endTime = InvalidDate
  THEN [status |-> 500, message |-> MsgCreateError, created |-> {}]
  ELSE [status |-> 201, message |-> null,
        created |-> {[_id |-> _id, faculty_id |-> user,
                      subject |-> body.subject, section |-> body.section,
                      class_start_time |-> body.startTime,
                      class_end_time |-> body.endTime,
                      secret_key |-> secret_key, is_active |-> TRUE]}]

\* crypto.randomBytes(16): a key no stored session carries.
randomBytes(store) ==
  SecretKeys \ {store[s].secret_key : s \in DOMAIN store}

\* POST /create, protect, authorizeRole(['teacher']), createSession.
CreateSession(user, body) ==
  /\ IF userRole(user) # "teacher"
     THEN /\ apiRes' = ApiResponse("createSession", user, null, body, 403,
                                   MsgForbidden, {}, {}, NoMetrics)
          /\ UNCHANGED sessions
     ELSE LET full == DOMAIN sessions = SessionIds
              _id == IF full THEN null
                     ELSE CHOOSE s \in SessionIds \ DOMAIN sessions : TRUE
              secret_key == IF full THEN null
                            ELSE CHOOSE k \in randomBytes(sessions) : TRUE
          IN
            /\ LET out == createSession(user, body, _id, secret_key) IN
               /\ out.status = 201 => _id # null
               /\ sessions' =
                    [s \in DOMAIN sessions \cup {d._id : d \in out.created} |->
                       IF s \in DOMAIN sessions THEN sessions[s]
                       ELSE CHOOSE d \in out.created : d._id = s]
               /\ apiRes' = ApiResponse("createSession", user,
                                        IF out.status = 201 THEN _id
                                        ELSE null,
                                        body, out.status, out.message,
                                        out.created, {}, NoMetrics)
  /\ UNCHANGED <<now, attendance, req, statusVars, tokenVars, qr_token,
                 authVars, sideVars>>

\* getSessionDetails without its ownership check.
getSessionDetailsNoOwnerCheck(user, sessionId, store, att) ==
  IF sessionId \notin DOMAIN store
  THEN [status |-> 404, message |-> MsgSessionNotFound, docs |-> {},
        attendees |-> {}]
  ELSE [status |-> 200, message |-> null,
        docs |-> {select(store[sessionId], SessionFields \ {"secret_key"})},
        attendees |-> {select(a, AttendeeFields) :
                         a \in {b \in att : b.session_id = sessionId}}]

\* getSessionDetails (lines 141-164).
getSessionDetails(user, sessionId, store, att) ==
  IF sessionId \notin DOMAIN store
  THEN [status |-> 404, message |-> MsgSessionNotFound, docs |-> {},
        attendees |-> {}]
  ELSE LET session == select(store[sessionId], SessionFields \ {"secret_key"})
       IN IF session.faculty_id # user
          THEN [status |-> 401, message |-> MsgNotAuthorized, docs |-> {},
                attendees |-> {}]
          ELSE [status |-> 200, message |-> null, docs |-> {session},
                attendees |-> {select(a, AttendeeFields) :
                                 a \in {b \in att : b.session_id = sessionId}}]

\* GET /session/:sessionId, protect, authorizeRole(['teacher']).
GetSessionDetails(user, sessionId) ==
  /\ apiRes' =
       IF userRole(user) # "teacher"
       THEN ApiResponse("getSessionDetails", user, sessionId, NoBody, 403,
                        MsgForbidden, {}, {}, NoMetrics)
       ELSE LET out == getSessionDetails(user, sessionId, sessions, attendance)
            IN ApiResponse("getSessionDetails", user, sessionId, NoBody,
                           out.status, out.message, out.docs, out.attendees,
                           NoMetrics)
  /\ UNCHANGED <<now, sessions, attendance, req, statusVars, tokenVars,
                 qr_token, authVars, sideVars>>

\* sessions.slice(0, 5) of the list sorted by class_start_time, newest first.
slice(list, limit) ==
  IF Cardinality(list) <= limit THEN list
  ELSE CHOOSE recent \in SUBSET list :
         /\ Cardinality(recent) = limit
         /\ \A d \in recent, e \in list \ recent :
              d.class_start_time >= e.class_start_time

\* getTeacherDashboardData (lines 237-277).
getTeacherDashboardData(user, store, t) ==
  LET list == {store[s] : s \in {x \in DOMAIN store :
                                   store[x].faculty_id = user}}
  IN [status |-> 200, message |-> null,
      docs |-> slice(list, RecentLimit),
      metrics |->
        [totalSessions |-> Cardinality(list),
         activeSessions |->
           Cardinality({d \in list :
                          /\ d.is_active
                          /\ t >= d.class_start_time
                          /\ t <= d.class_end_time})]]

\* GET /teacher-dashboard, protect, authorizeRole(['teacher']).
GetTeacherDashboardData(user) ==
  /\ apiRes' =
       IF userRole(user) # "teacher"
       THEN ApiResponse("getTeacherDashboardData", user, null, NoBody, 403,
                        MsgForbidden, {}, {}, NoMetrics)
       ELSE LET out == getTeacherDashboardData(user, sessions, now)
            IN ApiResponse("getTeacherDashboardData", user, null, NoBody,
                           out.status, out.message, out.docs, {}, out.metrics)
  /\ UNCHANGED <<now, sessions, attendance, req, statusVars, tokenVars,
                 qr_token, authVars, sideVars>>

\* getStudentHistory (lines 125-138): the student's records, each with its
\* session populated with subject, section and class_start_time.
getStudentHistory(user, store, att) ==
  LET history == {a \in att : a.student_id = user}
  IN [status |-> 200, message |-> null,
      docs |-> {select(store[a.session_id], HistorySessionFields) :
                  a \in {b \in history : b.session_id \in DOMAIN store}},
      attendees |-> history]

\* GET /history, protect, authorizeRole(['student']).
GetStudentHistory(user) ==
  /\ apiRes' =
       IF userRole(user) # "student"
       THEN ApiResponse("getStudentHistory", user, null, NoBody, 403,
                        MsgForbidden, {}, {}, NoMetrics)
       ELSE LET out == getStudentHistory(user, sessions, attendance)
            IN ApiResponse("getStudentHistory", user, null, NoBody,
                           out.status, out.message, out.docs, out.attendees,
                           NoMetrics)
  /\ UNCHANGED <<now, sessions, attendance, req, statusVars, tokenVars,
                 qr_token, authVars, sideVars>>

\* Math.round((attended / total) * 100), 0 for an empty total.
percent(attended, total) ==
  IF total = 0 THEN 0 ELSE (200 * attended + total) \div (2 * total)

\* getStudentMetrics (lines 167-234): the sessions of the student's
\* section, the student's attendance records, the per-subject statistics
\* and the overall figures.
getStudentMetrics(user, students, store, att) ==
  LET student == students[user]
      allSessions == {store[s] : s \in {x \in DOMAIN store :
                        store[x].section = student.student_details.section}}
      allAttendance == {a \in att : a.student_id = user}
      attendedSessionIds == {a.session_id : a \in allAttendance}
      stat(subject) ==
        LET ofSubject == {d \in allSessions : d.subject = subject}
            total == Cardinality(ofSubject)
            attended ==
              Cardinality({d \in ofSubject : d._id \in attendedSessionIds})
        IN [name |-> subject, attended |-> attended, total |-> total,
            percent |-> percent(attended, total)]
      totalSessions == Cardinality(allSessions)
      attendedSessions == Cardinality(allAttendance)
  IN [status |-> 200, message |-> null,
      metrics |->
        [totalSessions |-> totalSessions,
         attendedSessions |-> attendedSessions,
         overallPercent |-> percent(attendedSessions, totalSessions),
         classes |-> {stat(d.subject) : d \in allSessions}]]

\* GET /student-metrics, protect, authorizeRole(['student']).
GetStudentMetrics(user) ==
  /\ apiRes' =
       IF user \notin DOMAIN users
       THEN ApiResponse("getStudentMetrics", user, null, NoBody, 403,
                        MsgStudentsOnly, {}, {}, NoMetrics)
       ELSE LET out == getStudentMetrics(user, users, sessions, attendance)
            IN ApiResponse("getStudentMetrics", user, null, NoBody,
                           out.status, out.message, {}, {}, out.metrics)
  /\ UNCHANGED <<now, sessions, attendance, req, statusVars, tokenVars,
                 qr_token, authVars, sideVars>>

\* ------------------------------------------- scanning with a rotating token
\* A student scans while tokens are issued and expire: the request body is
\* { sessionId, qr_token }, qr_token possibly absent.
markAttendanceBody(R) ==
  \/ \E r \in R, u \in StudentIds,
        sid \in SessionIds \cup {UnknownSessionId, null},
        code \in TokenCodes \cup {null} : MarkRequest(r, u, sid, code)
  \/ \E r \in R : MarkFindSession(r)
  \/ \E r \in R : MarkFindAttendance(r)
  \/ \E r \in R : MarkFindUser(r)
  \/ \E r \in R : MarkCreate(r)

NextScan ==
  \/ Tick
  \/ \E s \in SessionIds, c \in TokenCodes, validity \in Validities :
       GenerateForSession(s, c, validity)
  \/ TTLDelete
  \/ markAttendanceBody({1})

SpecScan == InitToken /\ [][NextScan]_vars

\* Registration and login against the whitelist, the audit log accepting or
\* rejecting each append.
NextAuth ==
  \/ \E email \in AuthEmails, logFails \in BOOLEAN : LoginUser(email, logFails)
  \/ \E email \in AuthEmails, passwordLength \in PasswordLengths,
        role \in AuthRoles, logFails \in BOOLEAN :
       RegisterUser(email, passwordLength, role, logFails)

InitAuth ==
  /\ InitStores
  /\ sessions \in {f \in SeededSessions :
                     \A s \in SessionIds : f[s].is_active}
  /\ registered = {}

SpecAuth == InitAuth /\ [][NextAuth]_vars

\* Teachers create sessions and read them back while a student scans.
\* The bodies a client may send: every window over CreateTimes, bodies with
\* a field missing, and bodies with a date that does not parse.
CreateBodies ==
  [subject : Subjects, section : Sections, startTime : CreateTimes,
   endTime : CreateTimes]
    \cup {[subject |-> null, section |-> "A", startTime |-> 1, endTime |-> 2],
          [subject |-> "Maths", section |-> "A", startTime |-> NoTime,
           endTime |-> 2],
          [subject |-> "Maths", section |-> "A", startTime |-> InvalidDate,
           endTime |-> 2],
          [subject |-> "Maths", section |-> "A", startTime |-> 1,
           endTime |-> InvalidDate]}

\* The accounts that call the session endpoints.
Callers == FacultyIds \cup {"u1"}

NextSession ==
  \/ Tick
  \/ \E user \in Callers, body \in CreateBodies : CreateSession(user, body)
  \/ \E user \in Callers, sessionId \in SessionIds \cup {UnknownSessionId} :
       GetSessionDetails(user, sessionId)
  \/ \E user \in Callers : GetTeacherDashboardData(user)
  \/ \E user \in Callers : GetStudentHistory(user)
  \/ MarkStart(1, "u1", "s1")
  \/ MarkFindSession(1)
  \/ MarkFindAttendance(1)
  \/ MarkFindUser(1)
  \/ MarkCreate(1)

InitSession ==
  /\ InitStores
  /\ sessions = [s \in {} |-> null]
  /\ registered = Accounts

SpecSession == InitSession /\ [][NextSession]_vars

\* ------------------------------------------------ requests at the routes
\* Payloads of tokens jwt.verify accepts: the id of an account or of an
\* account deleted since ("x"), a role claim or none.
Headers ==
  {NoHeader, BadHeader}
    \cup [kind : {"jwt"}, id : Accounts \cup {"x"},
          role : {"student", "teacher", null}]

\* A request to an attendance route runs protect, then authorizeRole, then
\* the handler of the route.
Dispatch(route, header) ==
  LET passed == protect(header, StudentIds, FacultyIds, registered)
      out == IF passed.status # 0 THEN passed
             ELSE authorizeRole(route.allowedRoles, passed)
  IN /\ gate' = [path |-> route.path, header |-> header,
                 status |-> out.status, message |-> out.message,
                 handler |-> IF out.status = 0 THEN route.handler ELSE null]
     /\ UNCHANGED <<now, sessions, attendance, req, statusVars, tokenVars,
                    qr_token, authVars, apiRes, users, page, scan>>

NextGate == \E route \in Routes, header \in Headers : Dispatch(route, header)

\* Any set of accounts may have completed registration.
InitGate ==
  /\ InitStores
  /\ sessions \in SeededSessions
  /\ registered \in SUBSET Accounts

SpecGate == InitGate /\ [][NextGate]_vars

\* --------------------------------------------- watching the dashboard page
\* The form the page posts, and the teacher who is logged in.
PageBody == [subject |-> "Maths", section |-> "A", startTime |-> 1, endTime |-> 2]
PageUser == "f1"

\* The header button: setView, then the view effect.
SetView ==
  /\ page' = viewEffect([page EXCEPT !.view = IF @ = "dashboard"
                                               THEN "generate"
                                               ELSE "dashboard"])
  /\ UNCHANGED <<now, sessions, attendance, req, statusVars, tokenVars,
                 qr_token, authVars, apiRes, users, gate, scan>>

\* handleCreateSession: the state is reset and the interval cleared, the
\* form is posted; the server stores the session and a first token and
\* answers with _id, current_token and token_expires_at, or the request
\* fails.
HandleCreateSession(c, up) ==
  /\ page.view = "generate"
  /\ DOMAIN sessions # SessionIds
  /\ LET _id == CHOOSE s \in SessionIds \ DOMAIN sessions : TRUE
         secret_key == CHOOSE k \in randomBytes(sessions) : TRUE
         out == createSession(PageUser, PageBody, _id, secret_key)
         res == rotateQRToken(tokens, _id, c, now, up)
         reset == [page EXCEPT !.createdSessionId = null,
                               !.currentToken = null,
                               !.tokenExpiresAt = NoTime,
                               !.interval = NoTimer]
         new == IF res.ok
                THEN [reset EXCEPT !.createdSessionId = _id,
                                   !.currentToken = res.token,
                                   !.tokenExpiresAt = res.expires_at]
                ELSE reset
     IN /\ page' = autoRotation(reset, new, now)
        /\ sessions' =
             IF res.ok
             THEN [s \in DOMAIN sessions \cup {_id} |->
                     IF s \in DOMAIN sessions THEN sessions[s]
                     ELSE CHOOSE d \in out.created : d._id = s]
             ELSE sessions
        /\ tokens' = res.store
        /\ issued' = issued \cup (res.store \ tokens)
  /\ UNCHANGED <<now, attendance, req, statusVars, lastValidate, qr_token,
                 authVars, apiRes, users, gate, scan>>

\* rotateToken(createdSessionId), called by the interval when it is due or
\* by a click on "Refresh QR Now"; then the auto-rotation effect.
RotateToken(trigger, c, up) ==
  /\ page.createdSessionId # null
  /\ trigger = "timer" => (page.interval # NoTimer /\ page.interval = now)
  /\ trigger = "click" => (Displayed(page) /\ page.clicks < MaxClicks)
  /\ LET res == rotateQRToken(tokens, page.createdSessionId, c, now, up)
         fired == IF trigger = "timer"
                  THEN [page EXCEPT !.interval = now + RotateTicks]
                  ELSE [page EXCEPT !.clicks = @ + 1]
         new == rotateToken(fired, res)
     IN /\ page' = [autoRotation(fired, new, now) EXCEPT
                      !.attempts = @ + 1,
                      !.failures = IF res.ok THEN @ ELSE @ + 1,
                      !.lastRotate = IF res.ok THEN "ok" ELSE "failed"]
        /\ tokens' = res.store
        /\ issued' = issued \cup (res.store \ tokens)
  /\ UNCHANGED <<now, sessions, attendance, req, statusVars, lastValidate,
                 qr_token, authVars, apiRes, users, gate, scan>>

\* The clock of the page advances; an interval that is due fires first.
PageTick ==
  /\ now < MaxPageTime
  /\ page.interval = NoTimer \/ page.interval > now
  /\ now' = now + 1
  /\ UNCHANGED <<sessions, attendance, req, statusVars, tokenVars, apiVars>>

NextPage ==
  \/ PageTick
  \/ SetView
  \/ \E c \in TokenCodes, up \in BOOLEAN : HandleCreateSession(c, up)
  \/ \E trigger \in {"timer", "click"}, c \in TokenCodes, up \in BOOLEAN :
       RotateToken(trigger, c, up)
  \/ TTLDelete

InitPage ==
  /\ InitStores
  /\ sessions = [s \in {} |-> null]
  /\ registered = Accounts

SpecPage == InitPage /\ [][NextPage]_vars

\* ------------------------------------------------ the life of a record
\* The scan page sends one request at a time (processingRef): the next scan
\* starts after the response to the previous one.
MarkRescan(r, u, sid, code) ==
  /\ \A q \in Req : q < r => req[q].pc = "done"
  /\ MarkRequest(r, u, sid, code)

\* Scans follow one another while tokens rotate, statuses are derived and
\* student documents are rewritten.
NextRecord ==
  \/ Tick
  \/ \E validity \in Validities : GenerateForSession("s1", "c1", validity)
  \/ Migrate005("s1")
  \/ UpdateStatusByTime("s1")
  \/ \E name \in EditedNames \cup {"u1"} : EditProfile("u1", name, name)
  \/ \E r \in Req : MarkRescan(r, "u1", "s1", "c1")
  \/ \E r \in Req : MarkFindSession(r)
  \/ \E r \in Req : MarkFindAttendance(r)
  \/ \E r \in Req : MarkFindUser(r)
  \/ \E r \in Req : MarkCreate(r)

SpecRecord == InitToken /\ [][NextRecord]_vars

\* Scans follow one another while tokens rotate.
NextRescan ==
  \/ Tick
  \/ \E c \in TokenCodes, validity \in Validities \ {1} :
       GenerateForSession("s1", c, validity)
  \/ \E r \in Req, code \in TokenCodes : MarkRescan(r, "u1", "s1", code)
  \/ \E r \in Req : MarkFindSession(r)
  \/ \E r \in Req : MarkFindAttendance(r)
  \/ \E r \in Req : MarkFindUser(r)
  \/ \E r \in Req : MarkCreate(r)

SpecRescan == InitToken /\ [][NextRescan]_vars

\* rotateToken(createdSessionId) up to its await: the interval fires, or
\* "Refresh QR Now" is clicked, and the request leaves with the session id
\* that was displayed.
RotateSend(trigger) ==
  /\ page.createdSessionId # null
  /\ page.createdSessionId \notin page.pending
  /\ trigger = "timer" => (page.interval # NoTimer /\ page.interval = now)
  /\ trigger = "click" => (Displayed(page) /\ page.clicks < MaxClicks)
  /\ page' = [page EXCEPT
                !.interval = IF trigger = "timer" THEN now + RotateTicks ELSE @,
                !.clicks = IF trigger = "click" THEN @ + 1 ELSE @,
                !.attempts = @ + 1,
                !.pending = @ \cup {page.createdSessionId}]
  /\ UNCHANGED <<now, sessions, attendance, req, statusVars, tokenVars,
                 qr_token, authVars, apiRes, users, gate, scan>>

\* The server answers a rotateToken call for sessionId and the call resumes
\* after its await: the setters run, or the catch block; then the
\* auto-rotation effect.
RotateResponse(sessionId, c, up) ==
  /\ sessionId \in page.pending
  /\ LET res == rotateQRToken(tokens, sessionId, c, now, up)
         old == [page EXCEPT !.pending = @ \ {sessionId}]
         new == rotateToken(old, res)
     IN /\ page' = [autoRotation(old, new, now) EXCEPT
                      !.failures = IF res.ok THEN @ ELSE @ + 1,
                      !.lastRotate = IF res.ok THEN "ok" ELSE "failed"]
        /\ tokens' = res.store
        /\ issued' = issued \cup (res.store \ tokens)
  /\ UNCHANGED <<now, sessions, attendance, req, statusVars, lastValidate,
                 qr_token, authVars, apiRes, users, gate, scan>>

\* The page with its rotate-token calls in flight while the teacher creates
\* sessions.
NextPair ==
  \/ PageTick
  \/ SetView
  \/ \E c \in TokenCodes, up \in BOOLEAN : HandleCreateSession(c, up)
  \/ \E trigger \in {"timer", "click"} : RotateSend(trigger)
  \/ \E sessionId \in SessionIds, c \in TokenCodes, up \in BOOLEAN :
       RotateResponse(sessionId, c, up)

SpecPair == InitPage /\ [][NextPair]_vars

\* ------------------------------------------------ reading the metrics
\* Subjects of the seeded sessions, and the seeded Session collection with
\* the subject of each session.
MetricSubjects == {"Maths", "Physics"}

SessionsWithSubject ==
  {f \in [SessionIds ->
            [_id : SessionIds, subject : MetricSubjects, section : Sections,
             class_start_time : {1}, class_end_time : {2},
             is_active : {TRUE}]] :
     \A s \in SessionIds : f[s]._id = s}

\* Students scan, concurrently, and read their metrics.
NextMetrics ==
  \/ Tick
  \/ \E r \in Req, sid \in SessionIds : MarkStart(r, "u1", sid)
  \/ \E r \in Req : MarkFindSession(r)
  \/ \E r \in Req : MarkFindAttendance(r)
  \/ \E r \in Req : MarkFindUser(r)
  \/ \E r \in Req : MarkCreate(r)
  \/ \E user \in Accounts : GetStudentMetrics(user)

InitMetrics ==
  /\ InitStores
  /\ sessions \in SessionsWithSubject
  /\ registered = Accounts

SpecMetrics == InitMetrics /\ [][NextMetrics]_vars

\* ---------------------------------------------- watching the scan page
\* The scanner decodes a QR text and calls the success callback.
Decode(payload) ==
  /\ scan.mounted /\ scan.running
  /\ payload = "valid" /\ ~scan.processing =>
       scan.sent + scan.stopping < MaxReq
  /\ scan' = handleScan(scan, payload, now)
  /\ UNCHANGED <<now, sessions, attendance, req, statusVars, tokenVars,
                 qr_token, authVars, apiRes, users, gate, page>>

\* scannerRef.current.stop() resolves and the request is posted, lines
\* 96-101.
Post ==
  /\ scan.mounted /\ scan.stopping > 0
  /\ scan' = [scan EXCEPT !.running = FALSE, !.stopping = @ - 1,
                          !.inflight = @ + 1, !.sent = @ + 1]
  /\ UNCHANGED <<now, sessions, attendance, req, statusVars, tokenVars,
                 qr_token, authVars, apiRes, users, gate, page>>

\* The answer to one posted request arrives.
Answer(answer) ==
  /\ scan.mounted /\ scan.inflight > 0
  /\ scan' = handleAnswer([scan EXCEPT !.inflight = @ - 1], answer, now)
  /\ UNCHANGED <<now, sessions, attendance, req, statusVars, tokenVars,
                 qr_token, authVars, apiRes, users, gate, page>>

\* A cool-down timer is due.
CooldownOver ==
  /\ scan.mounted /\ now \in scan.timers
  /\ scan' = cooldownOver(scan, now)
  /\ UNCHANGED <<now, sessions, attendance, req, statusVars, tokenVars,
                 qr_token, authVars, apiRes, users, gate, page>>

\* The "Reset Scanner" button, always on screen.
ResetScanner ==
  /\ scan.mounted /\ scan.resets < MaxResets
  /\ scan' = [resetScanner(scan) EXCEPT !.resets = @ + 1]
  /\ UNCHANGED <<now, sessions, attendance, req, statusVars, tokenVars,
                 qr_token, authVars, apiRes, users, gate, page>>

\* The clock of the scan page advances; a timer that is due fires first.
ScanTick ==
  /\ now < MaxTime
  /\ scan.mounted => now \notin scan.timers
  /\ now' = now + 1
  /\ UNCHANGED <<sessions, attendance, req, statusVars, tokenVars, apiVars>>

NextGuard ==
  \/ ScanTick
  \/ \E payload \in Payloads : Decode(payload)
  \/ Post
  \/ \E answer \in Answers : Answer(answer)
  \/ CooldownOver
  \/ ResetScanner

SpecGuard == InitPage /\ [][NextGuard]_vars

\* Scans of one student follow one another, with and without a token in the
\* body, while tokens are issued and deleted and the database may fail a call.
NextReject ==
  \/ Tick
  \/ \E validity \in Validities \ {1} :
       GenerateForSession("s1", "c1", validity)
  \/ TTLDelete
  \/ \E r \in Req, sid \in {"s1", UnknownSessionId, null},
        code \in {"c1", null} : MarkRescan(r, "u1", sid, code)
  \/ \E r \in Req : MarkFindSession(r)
  \/ \E r \in Req : MarkFindAttendance(r)
  \/ \E r \in Req : MarkFindUser(r)
  \/ \E r \in Req : MarkCreate(r)
  \/ \E r \in Req : MarkStoreError(r)

SpecReject == InitToken /\ [][NextReject]_vars

\* ================================================================ claims
Done(r) == req[r].pc = "done"
Committed(r) == \E a \in attendance : a._id = r
SessionOf(r) == sessions[req[r].sessionId]
ReachedCheck(r) == req[r].checkedAt # -1

\* C1: in every reachable state the attendance store holds at most one
\* record for each (session, student), whatever the interleaving of the
\* concurrent markAttendance requests.
C1_AtMostOneRecord ==
  \A a, b \in attendance :
    (a.session_id = b.session_id /\ a.student_id = b.student_id) => a = b

\* C2: among the finished markAttendance requests of one student for one
\* session that got as far as the duplicate handling, exactly one returned
\* success and every other returned "already marked".
Competing(u, s) ==
  {r \in Req : /\ Done(r) /\ req[r].user = u /\ req[r].sessionId = s
               /\ req[r].res.message \in {MsgSuccess, MsgAlreadyMarked}}

C2_ExactlyOneSuccess ==
  \A u \in StudentIds, s \in SessionIds :
    Competing(u, s) # {} =>
      Cardinality({r \in Competing(u, s) : req[r].res.status = 200}) = 1

\* C6 as stated: every stored record has a timestamp inside the window of
\* its session.
C6_RecordWithinWindow ==
  \A a \in attendance :
    /\ sessions[a.session_id].class_start_time <= a.timestamp
    /\ a.timestamp <= sessions[a.session_id].class_end_time

\* C6 as amended: a scan whose check finds the session inactive, or the
\* clock before the start, or after the end, is rejected with the matching
\* reason and commits no record; every stored record belongs to a request
\* whose time check ran on an active session at a clock value inside the
\* window, and its timestamp is not earlier than that check (it may be
\* later than the end of the window).
C6_CommitOnlyWhenActiveAtCheck ==
  /\ \A r \in Req :
       ReachedCheck(r) =>
         LET session == SessionOf(r)
             t == req[r].checkedAt
             msg == req[r].res.message
         IN /\ ~session.is_active => msg = MsgInactive
            /\ (session.is_active /\ t < session.class_start_time)
                 => msg = MsgNotStarted
            /\ (session.is_active /\ t > session.class_end_time)
                 => msg = MsgEnded
  /\ \A r \in Req :
       (Done(r) /\ req[r].res.message \in {MsgInactive, MsgNotStarted, MsgEnded})
         => ~Committed(r)
  /\ \A a \in attendance :
       LET r == a._id
           session == sessions[a.session_id]
       IN /\ session.is_active
          /\ session.class_start_time <= req[r].checkedAt
          /\ req[r].checkedAt <= session.class_end_time
          /\ req[r].checkedAt <= a.timestamp

\* C6 witness: one request was turned away by a time check and left no
\* record while another committed a record stamped after the window closed.
C6_Witness ==
  \E r1, r2 \in Req :
    /\ Done(r1) /\ req[r1].res.message \in {MsgNotStarted, MsgEnded}
    /\ ~Committed(r1)
    /\ \E a \in attendance :
         a._id = r2 /\ a.timestamp > sessions[a.session_id].class_end_time

\* C7: the decision of a scan is the one the status derived from
\* (is_active, start, end, clock at the check) dictates, whatever status is
\* stored for the session: cancelled -> inactive, scheduled -> not started,
\* completed -> ended, active -> the scan passes the checks.
C7_DecisionFollowsDerivedStatus ==
  \A r \in Req :
    ReachedCheck(r) =>
      LET st == determineStatus(SessionOf(r), req[r].checkedAt)
          msg == req[r].res.message
      IN /\ st = "cancelled" <=> (Done(r) /\ msg = MsgInactive)
         /\ st = "scheduled" <=> (Done(r) /\ msg = MsgNotStarted)
         /\ st = "completed" <=> (Done(r) /\ msg = MsgEnded)
         /\ st = "active" <=> msg \notin {MsgInactive, MsgNotStarted, MsgEnded}

\* C7 witness: a scan was accepted while the status stored for its session
\* was stale (derived before the check, and different from the status the
\* clock dictated at the check).
C7_Witness ==
  \E r \in Req :
    /\ Done(r) /\ req[r].res.status = 200
    /\ LET s == req[r].sessionId
       IN /\ sessionNew[s] \notin {"none", "active"}
          /\ derived[s].at # -1 /\ derived[s].at < req[r].checkedAt
          /\ determineStatus(SessionOf(r), req[r].checkedAt) = "active"

\* C8: once the stored status of a session is cancelled, no step changes it.
C8_CancelledSticky ==
  [][\A s \in SessionIds :
       sessionNew[s] = "cancelled" => sessionNew'[s] = "cancelled"]_vars

\* C8 witness: updateStatusByTime ran on a cancelled session at a clock
\* value inside its window and the status is still cancelled.
C8_Witness ==
  \E s \in SessionIds :
    /\ sessionNew[s] = "cancelled"
    /\ derived[s].by = "update"
    /\ isWithinTimeWindow(sessions[s].class_start_time,
                          sessions[s].class_end_time, derived[s].at)

DerivedStatus(start_time, end_time, t) ==
  IF t < start_time THEN "scheduled"
  ELSE IF t <= end_time THEN "active"
  ELSE "completed"

\* C9: for a session that is not cancelled, the status derived at clock
\* value t (by migration 005 or by updateStatusByTime) is scheduled iff
\* t < start, active iff start <= t <= end, completed iff t > end; and
\* updateStatusByTime yields the same status from every stored status other
\* than cancelled.
C9_DerivationByClock ==
  /\ \A s \in SessionIds :
       (sessionNew[s] \notin {"none", "cancelled"}) =>
         LET t == derived[s].at
             start_time == sessions[s].class_start_time
             end_time == sessions[s].class_end_time
         IN /\ sessionNew[s] = "scheduled" <=> t < start_time
            /\ sessionNew[s] = "active" <=> (start_time <= t /\ t <= end_time)
            /\ sessionNew[s] = "completed" <=> t > end_time
  /\ \A s \in SessionIds, st \in SESSION_STATUSES \ {"cancelled"} :
       updateStatusByTime(st, sessions[s].class_start_time,
                          sessions[s].class_end_time, now)
         = DerivedStatus(sessions[s].class_start_time,
                         sessions[s].class_end_time, now)

\* C9 witness: updateStatusByTime derived active exactly at the end of the
\* window, from a stored status that was not active.
C9_Witness ==
  \E s \in SessionIds :
    /\ sessionNew[s] = "active"
    /\ derived[s] = [at |-> sessions[s].class_end_time, by |-> "update"]

\* C3: every validateToken(sessionId, code) call returns a token iff a
\* token with exactly that (sessionId, code) had been issued and the clock
\* at the call is before its expires_at; the token returned is that token,
\* and isValid holds of it.
C3_ValidateIffIssuedAndUnexpired ==
  [][lastValidate' # lastValidate =>
       LET call == lastValidate'
       IN /\ call.found # {} <=>
               \E d \in issued : /\ d.session_id = call.session_id
                                 /\ d.token = call.token
                                 /\ call.at < d.expires_at
          /\ \A d \in call.found :
               /\ d \in issued
               /\ d.session_id = call.session_id
               /\ d.token = call.token
               /\ isValid(d, call.at)
          /\ Cardinality(call.found) <= 1]_vars

\* C3 witness: a code issued for one session, still unexpired, was
\* presented for the other session, which has no such code, and was refused.
C3_Witness ==
  /\ lastValidate.at # -1 /\ lastValidate.found = {}
  /\ \E d \in tokens : /\ d.token = lastValidate.token
                       /\ d.session_id # lastValidate.session_id
                       /\ lastValidate.at < d.expires_at
  /\ ~\E d \in issued : /\ d.token = lastValidate.token
                        /\ d.session_id = lastValidate.session_id

\* C4: every token ever issued validates, as itself, at every clock value
\* before its own expires_at, whatever was issued after it.
C4_IssueKeepsEarlierTokensValid ==
  \A d \in issued :
    now < d.expires_at => validateToken(tokens, d.session_id, d.token, now) = {d}

\* C4 witness: two tokens of one session, issued at different times, are
\* both unexpired.
C4_Witness ==
  \E d1, d2 \in issued :
    /\ d1.session_id = d2.session_id /\ d1.token # d2.token
    /\ d1.expires_at < d2.expires_at
    /\ now < d1.expires_at
    /\ validateToken(tokens, d1.session_id, d1.token, now) = {d1}
    /\ validateToken(tokens, d2.session_id, d2.token, now) = {d2}

\* C5: a validateToken call changes neither the token store nor the
\* sessions nor the attendance store; and a token that validated validates
\* again for as long as it is unexpired.
C5_ValidateIsPureRead ==
  /\ [][lastValidate' # lastValidate =>
          /\ tokens' = tokens /\ issued' = issued
          /\ sessions' = sessions /\ sessionNew' = sessionNew
          /\ attendance' = attendance]_vars
  /\ [](\A d \in lastValidate.found :
          now < d.expires_at =>
            validateToken(tokens, d.session_id, d.token, now) = {d})

\* C5 witness: the same code validated twice in a row.
C5_Witness ==
  lastValidate.repeat /\ lastValidate.found # {}

\* Teaching.isStudentEnrolled
isStudentEnrolled(teaching, student) ==
  student.section = teaching.section /\ student.semester = teaching.semester

\* C10: no attendance record exists for a student whose section and
\* semester do not match the teaching assignment of the session.
C10_OnlyEnrolledRecorded ==
  \A a \in attendance :
    isStudentEnrolled(Teaching(sessions[a.session_id]), Student(a.student_id))

\* ------------------------------------------------------------- C11
\* C11: a request that supplies a code which does not validate for its
\* session (never issued for it, or expired by the time the handler checks
\* the session) is rejected and creates no attendance record.
C11_InvalidCodeRejected ==
  \A r \in Req :
    (/\ Done(r)
     /\ qr_token[r] # null
     /\ ~\E d \in issued :
          /\ d.session_id = req[r].sessionId
          /\ d.token = qr_token[r]
          /\ d.expires_at > req[r].checkedAt)
    => (req[r].res.status # 200 /\ ~Committed(r))

\* ------------------------------------------------------------- C12
\* C12: a request carrying a sessionId and no qr_token is rejected and
\* creates no attendance record.
C12_TokenMandatory ==
  \A r \in Req :
    (Done(r) /\ req[r].sessionId # null /\ qr_token[r] = null)
    => (req[r].res.status # 200 /\ ~Committed(r))

\* ------------------------------------------------------------- C13
\* The reason codes of an attendance denial.
DenialReasons ==
  {"token_invalid", "not_started", "window_closed", "cancelled",
   "not_enrolled", "already_marked"}

\* C13: when a call that resolved its session has returned, the audit log
\* holds its event: ATTENDANCE_MARK on success, ATTENDANCE_DENIED with a
\* reason code on rejection, actor the student, target the session.
C13_OutcomeAudited ==
  \A r \in Req :
    (Done(r) /\ ReachedCheck(r))
    => IF req[r].res.status = 200
       THEN \E e \in auditLog :
              \E m \in {e.metadata} :
                e = logAttendance(req[r].user, req[r].sessionId, TRUE, m)
       ELSE \E reason \in DenialReasons :
              logAttendance(req[r].user, req[r].sessionId, FALSE,
                            [reason |-> reason]) \in auditLog

\* ------------------------------------------------------------- C14
\* C14: the response of a login or registration call is the response the
\* same call would have produced had its audit append succeeded.
C14_LogFailureKeepsOutcome ==
  /\ authRes.op = "login"
       => authRes.res
            = loginUser(authRes.email, authRes.registeredBefore, FALSE).res
  /\ authRes.op = "register"
       => authRes.res
            = registerUser(authRes.email, authRes.passwordLength,
                           authRes.role, authRes.registeredBefore, FALSE).res
\* ------------------------------------------------------------- C15
CompleteBody(body) ==
  /\ body.subject # null /\ body.section # null
  /\ body.startTime \in CreateTimes /\ body.endTime \in CreateTimes

\* C15: every stored session ends after it starts; a createSession whose
\* endTime is not after its startTime answers 400 "End time must be after
\* start time." with no document, and while that answer stands neither the
\* Session nor the QRToken collection has changed.
C15_ValidWindow ==
  /\ [](\A s \in DOMAIN sessions :
          sessions[s].class_end_time > sessions[s].class_start_time)
  /\ []((/\ apiRes.op = "createSession"
         /\ userRole(apiRes.user) = "teacher"
         /\ CompleteBody(apiRes.body)
         /\ apiRes.body.endTime <= apiRes.body.startTime)
        => (/\ apiRes.status = 400
            /\ apiRes.message = MsgInvalidWindow
            /\ apiRes.docs = {}))
  /\ [][(apiRes'.op = "createSession" /\ apiRes'.status # 201)
        => (sessions' = sessions /\ tokens' = tokens)]_vars

C15_Witness ==
  /\ apiRes.op = "createSession"
  /\ CompleteBody(apiRes.body)
  /\ apiRes.body.endTime <= apiRes.body.startTime
  /\ apiRes.message = MsgInvalidWindow
  /\ DOMAIN sessions # {}

\* ------------------------------------------------------------- C16
\* The teaching assignment of a legacy session: faculty, subject, section.
SameTeaching(a, b) ==
  /\ a.faculty_id = b.faculty_id
  /\ a.subject = b.subject
  /\ a.section = b.section

Overlaps(a, b) ==
  /\ a.class_start_time < b.class_end_time
  /\ b.class_start_time < a.class_end_time

\* C16: no two stored sessions of one teaching assignment that are both
\* scheduled or active have overlapping windows.
C16_NoOverlappingSessions ==
  \A s1 \in DOMAIN sessions, s2 \in DOMAIN sessions :
    (/\ s1 # s2
     /\ SameTeaching(sessions[s1], sessions[s2])
     /\ determineStatus(sessions[s1], now) \in {"scheduled", "active"}
     /\ determineStatus(sessions[s2], now) \in {"scheduled", "active"})
    => ~Overlaps(sessions[s1], sessions[s2])

\* ------------------------------------------------------------- C17
\* C17: every stored session belongs to an existing, active teaching
\* assignment of the instructor who created it.
C17_OnlyOwnedActiveTeaching ==
  \A s \in DOMAIN sessions :
    \E t \in Teachings : SameTeaching(t, sessions[s]) /\ t.is_active

\* ------------------------------------------------------------- C18
\* C18: the 201 response of createSession carries a first token, and at the
\* moment of the response that token validates for the new session with
\* expires_at = issue time + validity.
C18_FirstTokenReturned ==
  [][(/\ apiRes'.op = "createSession"
      /\ apiRes'.status = 201
      /\ sessions' # sessions)
     => \E d \in apiRes'.docs :
          /\ "current_token" \in DOMAIN d
          /\ \E tok \in validateToken(tokens', d._id, d.current_token, now') :
               \E validity \in Validities : tok.expires_at = now' + validity
    ]_vars

\* ------------------------------------------------------------- C19
ReadEndpoints ==
  {"getSessionDetails", "getTeacherDashboardData", "getStudentHistory"}

\* C19: no response of a read endpoint contains a session's secret_key.
C19_SecretNeverReadBack ==
  apiRes.op \in ReadEndpoints
    => \A d \in apiRes.docs : "secret_key" \notin DOMAIN d

\* ------------------------------------------------------------- C20
\* C20: a getSessionDetails response to a requester who does not own the
\* session is a rejection carrying neither the session nor any attendee.
C20_DetailsOnlyForOwner ==
  (/\ apiRes.op = "getSessionDetails"
   /\ \/ apiRes.sessionId \notin DOMAIN sessions
      \/ sessions[apiRes.sessionId].faculty_id # apiRes.user)
  => (/\ apiRes.status # 200
      /\ apiRes.docs = {}
      /\ apiRes.attendees = {})

C20_Witness ==
  /\ apiRes.op = "getSessionDetails"
  /\ apiRes.user \in FacultyIds
  /\ apiRes.sessionId \in DOMAIN sessions
  /\ sessions[apiRes.sessionId].faculty_id # apiRes.user
  /\ \E a \in attendance : a.session_id = apiRes.sessionId
  /\ apiRes.status = 401

\* ------------------------------------------------------------- C27
\* C27: in every reachable state of the token store no two tokens share the
\* same (session_id, token); and every insert is of a (session_id, token)
\* that no stored token has, so an issue call that draws the code of a
\* still-stored token of the same session stores no second token.
C27_UniqueSessionCode ==
  /\ [](\A d1, d2 \in tokens :
          (d1.session_id = d2.session_id /\ d1.token = d2.token) => d1 = d2)
  /\ [][\A d \in tokens' \ tokens : ~QRTokenDuplicate(tokens, d)]_vars

\* C27 witness: the same code was drawn twice for one session; the second
\* draw was stored because the first token had been removed by then.
C27_Witness ==
  \E d \in issued \ tokens, d2 \in tokens :
    /\ d.session_id = d2.session_id /\ d.token = d2.token
    /\ d.expires_at # d2.expires_at

\* ------------------------------------------------------------- C29
\* The position of a status on the lifecycle scheduled -> active -> completed.
StatusRank(status) ==
  CASE status = "scheduled" -> 0
    [] status = "active" -> 1
    [] status = "completed" -> 2

\* C29: the clock never decreases, and the stored status of a session that
\* is not cancelled only moves forward along scheduled -> active ->
\* completed in every step: it never returns from completed to active or
\* scheduled, nor from active to scheduled, and completed stays completed.
C29_StatusOnlyForward ==
  [][/\ now' >= now
     /\ \A s \in SessionIds :
          sessionNew[s] \in {"scheduled", "active", "completed"} =>
            /\ sessionNew'[s] \in {"scheduled", "active", "completed"}
            /\ StatusRank(sessionNew'[s]) >= StatusRank(sessionNew[s])]_vars

\* C29 witness: updateStatusByTime derived completed after the end of a
\* session while the other session, migrated later, is stored completed
\* too and has not been updated.
C29_Witness ==
  \E s \in SessionIds :
    /\ sessionNew[s] = "completed" /\ derived[s].by = "update"
    /\ derived[s].at > sessions[s].class_end_time
    /\ \E s2 \in SessionIds \ {s} :
         sessionNew[s2] = "completed" /\ derived[s2].by = "migrate"

\* ------------------------------------------------------------- C30
\* C30: the TTL task removes only tokens whose expires_at is not after the
\* clock, and in every state validateToken answers from the store, for
\* every session and code, what it would answer from the store with every
\* token ever issued still in it.
C30_DeletionNeverChangesValidate ==
  /\ [][\A d \in tokens \ tokens' : d.expires_at <= now]_vars
  /\ [](\A s \in SessionIds, c \in TokenCodes :
          validateToken(tokens, s, c, now) = validateToken(issued, s, c, now))

\* C30 witness: validateToken was called with the session and code of a
\* token that the TTL task had removed, while another token is still stored.
C30_Witness ==
  /\ lastValidate.at = now /\ lastValidate.found = {}
  /\ \E d \in issued \ tokens :
       /\ d.session_id = lastValidate.session_id
       /\ d.token = lastValidate.token
  /\ tokens # {}

\* ------------------------------------------------------------- C23
\* The code of request r validates for its session at the clock value of
\* its session check.
TokenPassed(r) ==
  \E d \in issued : /\ d.session_id = req[r].sessionId
                    /\ d.token = qr_token[r]
                    /\ d.expires_at > req[r].checkedAt

\* C23: the checks run in the order session lookup, token, time
\* window/status, enrollment, duplicate: a call that returns the reason of
\* one check has passed every earlier check. A time-window or status
\* rejection is returned only to a request whose token validated, and
\* already-marked only to an enrolled student whose token validated inside
\* the window of an active session.
C23_EarliestFailingCheck ==
  \A r \in Req :
    (Done(r) /\ ReachedCheck(r)) =>
      /\ req[r].res.message \in {MsgInactive, MsgNotStarted, MsgEnded}
           => TokenPassed(r)
      /\ req[r].res.message = MsgAlreadyMarked
           => /\ TokenPassed(r)
              /\ SessionCheck(SessionOf(r), req[r].checkedAt) = null
              /\ isStudentEnrolled(Teaching(SessionOf(r)),
                                   Student(req[r].user))

\* ------------------------------------------------------------- C21
\* C21: every attendance record of a state is a record of the next state,
\* field for field (session, student, name and usn snapshots, timestamp):
\* no step (a further scan, a token issue, a status derivation, a rewrite
\* of the student's document) changes or deletes a record.
C21_RecordImmutable ==
  [][\A a \in attendance : a \in attendance']_vars

\* C21 witness: a record whose snapshot differs from the student's current
\* document, after a token was issued, the status of its session derived
\* and a further scan of the same student answered.
C21_Witness ==
  \E a \in attendance :
    /\ a.student_name # users[a.student_id].student_details.name
    /\ a.usn # users[a.student_id].student_details.usn
    /\ \E d \in issued : d.expires_at > a.timestamp + 1
    /\ derived[a.session_id].at > a.timestamp
    /\ \E r \in Req : /\ r # a._id /\ Done(r)
                      /\ req[r].user = a.student_id
                      /\ req[r].sessionId = a.session_id

\* ------------------------------------------------------------- C28
\* Request r2 is a later scan of the student and session of request r1,
\* sent after r1 stored its record, with another code, which validates.
SecondScan(r1, r2) ==
  /\ r1 < r2 /\ Committed(r1) /\ Done(r2)
  /\ req[r2].user = req[r1].user /\ req[r2].sessionId = req[r1].sessionId
  /\ qr_token[r2] # qr_token[r1]
  /\ ReachedCheck(r2) /\ TokenPassed(r2)

\* The record of request r1 is the one its own scan wrote.
RecordAsWritten(r1) ==
  {a \in attendance : a._id = r1} = {AttendanceDoc(r1)}

\* C28 as stated: every second, sequential scan of a student who has a
\* record for the session, presenting a different valid token, is answered
\* already-marked and leaves the record as the first scan wrote it.
C28_SecondScanAlreadyMarked ==
  \A r1, r2 \in Req :
    SecondScan(r1, r2) =>
      /\ req[r2].res = Response(400, MsgAlreadyMarked)
      /\ ~Committed(r2)
      /\ RecordAsWritten(r1)

\* C28 amended: a second, sequential scan with a different valid token
\* that passes the status and time-window checks of the session is
\* answered already-marked; every second sequential scan, whatever its
\* answer, stores nothing and leaves the record as the first scan wrote it.
C28_SecondScanInsideWindow ==
  \A r1, r2 \in Req :
    SecondScan(r1, r2) =>
      /\ SessionCheck(SessionOf(r2), req[r2].checkedAt) = null
           => req[r2].res = Response(400, MsgAlreadyMarked)
      /\ ~Committed(r2)
      /\ RecordAsWritten(r1)
      /\ \A a \in attendance :
           (a.session_id = req[r1].sessionId /\ a.student_id = req[r1].user)
             => a._id = r1

\* C28 witness: the second scan was checked later than the first, inside
\* the window, with a code issued after the first record was written, and
\* was answered already-marked.
C28_Witness ==
  \E r1, r2 \in Req :
    /\ SecondScan(r1, r2)
    /\ req[r2].res = Response(400, MsgAlreadyMarked)
    /\ req[r2].checkedAt > req[r1].timestamp
    /\ \E d \in issued :
         /\ d.token = qr_token[r2] /\ d.session_id = req[r2].sessionId
         /\ d.expires_at > req[r2].checkedAt
         /\ \A validity \in Validities :
              d.expires_at - validity >= req[r1].timestamp

\* ------------------------------------------------------------- C22
RouteOf(path) == CHOOSE route \in Routes : route.path = path

\* C22: a request reaches the handler of its route only if its header
\* carries a token jwt.verify accepts, of an existing account that is
\* registered, whose role claim is one the route allows (student for mark,
\* history and metrics; teacher for create, session details, dashboard and
\* rotate-token); every other request is answered 401 or 403 and no
\* handler runs.
C22_FailsClosed ==
  gate.path # null =>
    LET route == RouteOf(gate.path)
        allowed == /\ gate.header.kind = "jwt"
                   /\ gate.header.id \in Accounts \cap registered
                   /\ gate.header.role \in route.allowedRoles
    IN /\ route.allowedRoles =
            (IF route.handler \in {"markAttendance", "getStudentHistory",
                                   "getStudentMetrics"}
             THEN {"student"} ELSE {"teacher"})
       /\ allowed => (gate.handler = route.handler /\ gate.status = 0)
       /\ ~allowed => (gate.handler = null /\ gate.status \in {401, 403})

\* C22 witness: a registered student's token with the role claim student
\* was refused on a teacher route with 403.
C22_Witness ==
  /\ gate.header.kind = "jwt" /\ gate.header.id \in StudentIds \cap registered
  /\ gate.header.role = "student"
  /\ gate.path = "POST /session/:sessionId/rotate-token"
  /\ gate.status = 403 /\ gate.handler = null

\* ------------------------------------------------------------- C24
\* C24: from session creation on, as long as no rotation request has
\* failed, the token of a displayed QR code is unexpired: there is no
\* instant with the QR code on screen and now >= tokenExpiresAt.
C24_DisplayedTokenUnexpired ==
  (Displayed(page) /\ page.failures = 0) => now < page.tokenExpiresAt

\* ------------------------------------------------------------- C25
\* C25: whenever the QR code of a created session is displayed (generate
\* view, session id and current token set), the rotation interval of that
\* session is running, also after the view was switched to the dashboard
\* and back.
C25_DisplayedImpliesTimer ==
  Displayed(page) =>
    /\ page.interval # NoTimer
    /\ page.interval >= now
    /\ page.interval <= now + RotateTicks

\* ------------------------------------------------------------- C26
\* C26: a rotateToken call that fails changes neither the displayed token
\* nor its expiry nor the session id nor the token store, and an interval
\* that was running is still running afterwards, due now or within the
\* next 55 s, so that the rotation is attempted again.
C26_FailedRotationKeepsDisplay ==
  [][page'.failures # page.failures =>
       /\ page'.currentToken = page.currentToken
       /\ page'.tokenExpiresAt = page.tokenExpiresAt
       /\ page'.createdSessionId = page.createdSessionId
       /\ page'.view = page.view
       /\ tokens' = tokens
       /\ page.interval # NoTimer =>
            /\ page'.interval # NoTimer
            /\ page'.interval >= now
            /\ page'.interval <= now + RotateTicks]_vars

\* C26 witness: the QR code is displayed; of a click on "Refresh QR Now"
\* and a rotation by the interval the first failed and the token stayed,
\* the second, made afterwards, succeeded, and the interval is running.
C26_Witness ==
  /\ Displayed(page) /\ page.interval # NoTimer
  /\ page.failures = 1 /\ page.clicks = 1 /\ page.attempts = 2
  /\ page.lastRotate = "ok"
  /\ now < page.tokenExpiresAt

\* The steps of request r that follow its arrival.
MarkStep(r) ==
  \/ MarkFindSession(r)
  \/ MarkFindAttendance(r)
  \/ MarkFindUser(r)
  \/ MarkCreate(r)
  \/ MarkStoreError(r)

\* C31: a markAttendance call persists nothing before it commits and answers
\* exactly once.  A call has a response exactly when it is over, a response
\* once sent is never replaced, and a call that is under way can always take
\* its next step.  A step of a call changes a store only when it is the step
\* that answers 200, and then it adds the one record of that call to the
\* attendance store; every other step of the call, the rejecting one
\* included, leaves the attendance store, the token store and the sessions
\* as they were, so a record of a call is stored exactly when the call
\* answered 200.
C31_RejectedCallPersistsNothing ==
  /\ [](\A r \in Req :
          /\ Done(r) <=> req[r].res # NoResponse
          /\ Committed(r) <=> req[r].res.status = 200
          /\ req[r].pc \in AwaitPositions => ENABLED MarkStep(r))
  /\ [][\A r \in Req :
          /\ Done(r) => req'[r] = req[r]
          /\ req'[r] # req[r] =>
                /\ UNCHANGED <<sessions, tokens, sessionNew>>
                /\ IF req'[r].res.status = 200
                   THEN /\ req[r].pc = "create"
                        /\ attendance' = attendance \cup {AttendanceDoc(r)}
                        /\ AttendanceDoc(r) \notin attendance
                   ELSE attendance' = attendance]_vars

\* Witness: with a token of s1 stored, one call was rejected by the database
\* at the insert and stored nothing, and another call committed its record.
C31_Witness ==
  /\ tokens # {}
  /\ \E r1, r2 \in Req :
       /\ req[r1].res = Response(500, MsgServerError)
       /\ req[r1].timestamp # -1
       /\ ~Committed(r1)
       /\ req[r2].res.status = 200
       /\ attendance = {a \in attendance : a._id = r2}

\* C32: whenever the QR code is on screen, the token of its payload was
\* issued for the session id of its payload.
C32_PayloadPairsSessionAndToken ==
  Displayed(page) =>
    \E d \in issued :
      d.session_id = page.createdSessionId /\ d.token = page.currentToken

\* C33: the scan page never has more than one mark-attendance request in
\* flight, and after an "already marked" answer it sends no request until
\* the scanner is reset.
C33_AtMostOneInFlight ==
  /\ [](scan.inflight <= 1)
  /\ [][scan'.sent > scan.sent => scan.answered # "already"]_vars

RECURSIVE SumAttended(_)
\* The sum of the attended counts of a set of per-subject entries.
SumAttended(classes) ==
  IF classes = {} THEN 0
  ELSE LET c == CHOOSE x \in classes : TRUE
       IN c.attended + SumAttended(classes \ {c})

\* C34: in every 200 response of getStudentMetrics the attended count is at
\* most the total, overall and for each subject, every percentage lies in
\* 0..100, and the overall attended count is the sum of the per-subject
\* attended counts.
C34_MetricsWithinBounds ==
  (apiRes.op = "getStudentMetrics" /\ apiRes.status = 200) =>
    LET m == apiRes.metrics
    IN /\ m.attendedSessions <= m.totalSessions
       /\ m.overallPercent \in 0..100
       /\ \A c \in m.classes : c.attended <= c.total /\ c.percent \in 0..100
       /\ m.attendedSessions = SumAttended(m.classes)

\* C35: a step that persists a new session also issues a token for it, so
\* that a creation whose first token could not be issued leaves no session
\* behind.
C35_CreateAllOrNothing ==
  [][\A s \in DOMAIN sessions' \ DOMAIN sessions :
       \E d \in issued' : d.session_id = s]_vars

====
